---------------------------- MODULE Spec2Model ----------------------------
(***************************************************************************)
(* Model of src/Mod/Draft/draftguitools/gui_snaps.py (FreeCAD, Draft       *)
(* workbench): the snap commands (Draft_Snap_Base, Draft_Snap_Lock and the *)
(* other Draft_Snap_* classes) and the keyboard handler keyPressEvent that *)
(* drives the tracker's numeric-entry state machine.                       *)
(*                                                                         *)
(* Python values are encoded as follows.                                   *)
(*   - An attribute that may be None is an "option": None is the empty set *)
(*     and a value x is the singleton {x}.                                 *)
(*   - A text the handler reads character by character (event.text(),     *)
(*     inputDistance) is the sequence of its Unicode code points; a name   *)
(*     (a class, a snap mode) is a sequence of one-character strings.      *)
(*   - A point (FreeCAD.Vector) is an integer coordinate on a line; its    *)
(*     truth value is True (a Vector is always truthy), so the truth value *)
(*     of an optional point is "is not None".                              *)
(*   - A Qt key is its integer key code.                                   *)
(* Three specifications are given: Spec (key events on the handler),       *)
(* CmdSpec (snap commands activated directly) and HostSpec (snap commands  *)
(* activated by the host, which consults IsActive() first).                *)
(***************************************************************************)
EXTENDS Integers, Sequences, FiniteSets

VARIABLES
    hasTracker,        \* hasattr(self, "tracker") and self.tracker is not None
    tracker,           \* the tracker's holdPoint, inputDistance, locked_dir_vector
    currentSnapPoint,  \* self.currentSnapPoint (option of a point)
    wp,                \* the rotation of the working plane tracker._get_wp() returns
    ev,                \* the last key event handled and what the handler did with it
    hasSnapper,        \* hasattr(Gui, "Snapper")
    hasSnapModes,      \* Gui.Snapper.snap_modes exists and is not None
    active_snaps,      \* Gui.Snapper.active_snaps
    tracking,          \* Draft_Snap_Lock.tracker.is_active()
    cmdEv              \* the last command activation and what it did

keyVars == <<hasTracker, tracker, currentSnapPoint, wp, ev>>
cmdVars == <<hasSnapper, hasSnapModes, active_snaps, tracking, cmdEv>>
vars == <<hasTracker, tracker, currentSnapPoint, wp, ev,
          hasSnapper, hasSnapModes, active_snaps, tracking, cmdEv>>

---------------------------------------------------------------------------
(* Bounds of the model. *)

\* The longest numeric input buffer the model lets the user type.
MaxLen == 3

\* Points are the coordinates 1..MaxCoord.
MaxCoord == 2

\* How many of the snap command classes the command specifications activate.
NumCommands == 5

---------------------------------------------------------------------------
(* Qt key codes, the QtCore.Qt.Key_ constants the handler compares with. *)

Key_Q == 81
Key_Escape == 16777216
Key_0 == 48
Key_9 == 57
Key_Backspace == 16777219
Key_Delete == 16777223
Key_Period == 46
Key_Comma == 44
Key_Return == 16777220
Key_Enter == 16777221

\* Keys the handler has no branch for: Slash (Key_0 - 1), Colon (Key_9 + 1)
\* and A.
Key_Slash == 47
Key_Colon == 58
Key_A == 65

---------------------------------------------------------------------------
(* Python values. *)

None == {}
Some(x) == {x}
Get(o) == CHOOSE x \in o : TRUE

\* bool(x) of an optional point or of a Vector-valued attribute.
Truthy(o) == o # None

\* bool(s) of an optional string: None and "" are falsy.
TruthyStr(o) == o # None /\ Get(o) # <<>>

InRanges(c, ranges) ==
    \E i \in 1..Len(ranges) : ranges[i][1] <= c /\ c <= ranges[i][2]

\* The code points c with chr(c).isdigit(): the decimal digits of every
\* script and the other characters of numeric type Digit (superscripts,
\* circled digits, ...), as ranges first..last.
DigitRanges ==
    <<
      <<48, 57>>, <<178, 179>>, <<185, 185>>, <<1632, 1641>>,
      <<1776, 1785>>, <<1984, 1993>>, <<2406, 2415>>, <<2534, 2543>>,
      <<2662, 2671>>, <<2790, 2799>>, <<2918, 2927>>, <<3046, 3055>>,
      <<3174, 3183>>, <<3302, 3311>>, <<3430, 3439>>, <<3558, 3567>>,
      <<3664, 3673>>, <<3792, 3801>>, <<3872, 3881>>, <<4160, 4169>>,
      <<4240, 4249>>, <<4969, 4977>>, <<6112, 6121>>, <<6160, 6169>>,
      <<6470, 6479>>, <<6608, 6618>>, <<6784, 6793>>, <<6800, 6809>>,
      <<6992, 7001>>, <<7088, 7097>>, <<7232, 7241>>, <<7248, 7257>>,
      <<8304, 8304>>, <<8308, 8313>>, <<8320, 8329>>, <<9312, 9320>>,
      <<9332, 9340>>, <<9352, 9360>>, <<9450, 9450>>, <<9461, 9469>>,
      <<9471, 9471>>, <<10102, 10110>>, <<10112, 10120>>, <<10122, 10130>>,
      <<42528, 42537>>, <<43216, 43225>>, <<43264, 43273>>,
      <<43472, 43481>>, <<43504, 43513>>, <<43600, 43609>>,
      <<44016, 44025>>, <<65296, 65305>>, <<66720, 66729>>,
      <<68160, 68163>>, <<68912, 68921>>, <<69216, 69224>>,
      <<69714, 69722>>, <<69734, 69743>>, <<69872, 69881>>,
      <<69942, 69951>>, <<70096, 70105>>, <<70384, 70393>>,
      <<70736, 70745>>, <<70864, 70873>>, <<71248, 71257>>,
      <<71360, 71369>>, <<71472, 71481>>, <<71904, 71913>>,
      <<72016, 72025>>, <<72784, 72793>>, <<73040, 73049>>,
      <<73120, 73129>>, <<92768, 92777>>, <<92864, 92873>>,
      <<93008, 93017>>, <<120782, 120831>>, <<123200, 123209>>,
      <<123632, 123641>>, <<125264, 125273>>, <<127232, 127242>>,
      <<130032, 130041>>
    >>

\* The code points c with chr(c).isspace(): what str.strip() removes.
SpaceRanges ==
    <<
      <<9, 13>>, <<28, 32>>, <<133, 133>>, <<160, 160>>, <<5760, 5760>>,
      <<8192, 8202>>, <<8232, 8233>>, <<8239, 8239>>, <<8287, 8287>>,
      <<12288, 12288>>
    >>

IsDigitChar(c) == InRanges(c, DigitRanges)
IsSpaceChar(c) == InRanges(c, SpaceRanges)

\* str.isdigit(): a non-empty text all of whose characters are digits.
IsDigit(text) == text # <<>> /\ \A i \in 1..Len(text) : IsDigitChar(text[i])

\* str.lstrip(), str.rstrip() and str.strip() without argument.
RECURSIVE LStrip(_)
LStrip(s) == IF s # <<>> /\ IsSpaceChar(Head(s)) THEN LStrip(Tail(s)) ELSE s

RECURSIVE RStrip(_)
RStrip(s) ==
    IF s # <<>> /\ IsSpaceChar(s[Len(s)])
    THEN RStrip(SubSeq(s, 1, Len(s) - 1)) ELSE s

Strip(s) == RStrip(LStrip(s))

Points == 1..MaxCoord
OptPoints == {None} \cup {Some(p) : p \in Points}

---------------------------------------------------------------------------
(* The tracker (draftguitools.gui_trackers.SnapTracker).  Its methods are  *)
(* called by the handler; their effect on the attributes the handler reads *)
(* is what the handler's own uses of them require.                         *)

Tracker(h, d, l) == [holdPoint |-> h, inputDistance |-> d, locked_dir_vector |-> l]

\* A tracker as constructed: no hold point, no numeric input, no direction.
NewTracker == Tracker(None, None, None)

\* tracker.setHoldPoint(point): the hold point becomes the point.
setHoldPoint(t, p) == [t EXCEPT !.holdPoint = p]

\* tracker.clearHoldPoint(): the hold point is unset.
clearHoldPoint(t) == [t EXCEPT !.holdPoint = None]

\* tracker.processNumericInput(text): the text is appended to
\* inputDistance, which starts from the empty string when it is None.
processNumericInput(t, text) ==
    [t EXCEPT !.inputDistance =
        Some((IF @ = None THEN <<>> ELSE Get(@)) \o text)]

\* tracker.updateTracking(): redraws; no attribute the handler reads changes.
updateTracking(t) == t

\* tracker.commitInput(): the typed distance is consumed, so the next digit
\* starts a new input.
commitInput(t) == [t EXCEPT !.inputDistance = None]

\* The working planes: the rotation of wp.get_local_rotation(), on a line
\* either the identity or the reflection.
WorkingPlanes == {1, 0 - 1}

\* wp.get_local_rotation().multVec(direction)
multVec(w, d) == w * d

\* tracker.get_orthogonal_direction(v): the axis direction nearest to v.
get_orthogonal_direction(v) == IF v > 0 THEN 1 ELSE IF v < 0 THEN 0 - 1 ELSE 0

---------------------------------------------------------------------------
(* keyPressEvent(self, event).  Each branch of the handler is an operator  *)
(* giving the tracker after the branch, the tracker methods it called (in  *)
(* order, each with its argument, the empty text when it has none), how    *)
(* often it called event.accept(), the default handler and                 *)
(* Console.PrintError, and whether it raised instead of returning.         *)

Call(m, a) == <<m, a>>

Result(t, calls, accepts, defaults, errors) ==
    [tracker |-> t, calls |-> calls, accepts |-> accepts,
     defaults |-> defaults, errors |-> errors, raised |-> FALSE]

\* The handler raises an exception, which the host's event loop reports.
Raises(r) == [r EXCEPT !.raised = TRUE]

\* The text "." of line 388.
Dot == <<46>>

\* A missing tracker that is not reported: the event goes to the default handler.
MissingTrackerFallsThrough(t) == Result(t, <<>>, 0, 1, 0)

\* Lines 332-335: no tracker attribute, or a tracker that is None.
MissingTracker(t) == Result(t, <<>>, 1, 0, 1)

\* Lines 337-343: Q sets the hold point to the current snap point, if any.
KeyQ(t, cur) ==
    IF cur # None
    THEN Result(setHoldPoint(t, cur), <<Call("setHoldPoint", <<>>)>>, 1, 0, 0)
    ELSE Result(t, <<>>, 1, 0, 0)

\* Lines 345-350: Escape clears the hold point.
KeyEscape(t) == Result(clearHoldPoint(t), <<Call("clearHoldPoint", <<>>)>>, 1, 0, 0)

\* Lines 367-371: the direction from the hold point to the snap point, in
\* the working plane, locked to an axis.
LockDirection(t, cur, w) ==
    [t EXCEPT !.locked_dir_vector =
        Some(get_orthogonal_direction(multVec(w, Get(cur) - Get(t.holdPoint))))]

DirectionCalls == <<Call("_get_wp", <<>>), Call("get_orthogonal_direction", <<>>)>>

\* A digit handler that recomputes the direction on every digit.
KeyDigitEveryDigit(t, cur, w, text) ==
    IF ~Truthy(t.holdPoint) THEN Result(t, <<>>, 1, 0, 0)
    ELSE IF ~IsDigit(text) THEN Result(t, <<>>, 1, 0, 1)
    ELSE LET t1 == processNumericInput(t, text)
             c1 == <<Call("processNumericInput", text)>>
         IN  IF Truthy(t1.holdPoint) /\ Truthy(cur)
             THEN Result(LockDirection(t1, cur, w), c1 \o DirectionCalls, 1, 0, 0)
             ELSE Result(t1, c1, 1, 0, 0)

\* A digit handler without the hold-point guard of lines 353-355.
KeyDigitNoHoldGuard(t, cur, w, text) ==
    IF ~IsDigit(text) THEN Result(t, <<>>, 1, 0, 1)
    ELSE LET t1 == processNumericInput(t, text)
             c1 == <<Call("processNumericInput", text)>>
         IN  IF t.inputDistance = None /\ Truthy(t1.holdPoint) /\ Truthy(cur)
             THEN Result(LockDirection(t1, cur, w), c1 \o DirectionCalls, 1, 0, 0)
             ELSE Result(t1, c1, 1, 0, 0)

\* Lines 352-376: a digit key.
KeyDigit(t, cur, w, text) ==
    IF ~Truthy(t.holdPoint) THEN Result(t, <<>>, 1, 0, 0)
    ELSE IF ~IsDigit(text) THEN Result(t, <<>>, 1, 0, 1)
    ELSE LET t1 == processNumericInput(t, text)
             c1 == <<Call("processNumericInput", text)>>
         IN  IF t.inputDistance = None
             THEN IF Truthy(t1.holdPoint) /\ Truthy(cur)
                  THEN Result(LockDirection(t1, cur, w), c1 \o DirectionCalls, 1, 0, 0)
                  ELSE Result(t1, c1, 1, 0, 0)
             ELSE Result(t1, c1, 1, 0, 0)

\* A Backspace that empties the whole buffer.
KeyBackspaceClears(t) ==
    IF TruthyStr(t.inputDistance)
    THEN Result(updateTracking([t EXCEPT !.inputDistance = Some(<<>>)]),
                <<Call("updateTracking", <<>>)>>, 1, 0, 0)
    ELSE Result(t, <<>>, 1, 0, 0)

\* Lines 378-384: Backspace and Delete remove the last character.
KeyBackspace(t) ==
    IF TruthyStr(t.inputDistance)
    THEN Result(updateTracking(
                    [t EXCEPT !.inputDistance =
                        Some(SubSeq(Get(@), 1, Len(Get(@)) - 1))]),
                <<Call("updateTracking", <<>>)>>, 1, 0, 0)
    ELSE Result(t, <<>>, 1, 0, 0)

\* Lines 386-390: Period and Comma both enter the decimal separator ".".
KeySeparator(t) ==
    Result(processNumericInput(t, Dot), <<Call("processNumericInput", Dot)>>, 1, 0, 0)

\* Lines 392-405: Return and Enter commit a non-blank input.
KeyReturn(t) ==
    IF ~TruthyStr(t.inputDistance) \/ Strip(Get(t.inputDistance)) = <<>>
    THEN Result(t, <<>>, 1, 0, 1)
    ELSE Result(commitInput(t), <<Call("commitInput", <<>>)>>, 1, 0, 0)

\* Lines 407-408: any other key is meant for the default handler, but
\* keyPressEvent is a function of the module, not a method defined in a
\* class body, so the zero-argument super() of line 408 raises RuntimeError
\* ("super(): __class__ cell not found") before any handler is called.
KeyOther(t) == Raises(Result(t, <<>>, 0, 0, 0))

\* Lines 328-408: the dispatch on the key of the event.
keyPressEvent(has, t, cur, w, e) ==
    IF ~has THEN MissingTracker(t)
    ELSE IF e.key = Key_Q THEN KeyQ(t, cur)
    ELSE IF e.key = Key_Escape THEN KeyEscape(t)
    ELSE IF Key_0 <= e.key /\ e.key <= Key_9 THEN KeyDigit(t, cur, w, e.text)
    ELSE IF e.key \in {Key_Backspace, Key_Delete} THEN KeyBackspace(t)
    ELSE IF e.key \in {Key_Period, Key_Comma} THEN KeySeparator(t)
    ELSE IF e.key \in {Key_Return, Key_Enter} THEN KeyReturn(t)
    ELSE KeyOther(t)

---------------------------------------------------------------------------
(* The snap commands.  A class is its name, a string; the snap mode of a   *)
(* command is the name without its first PrefixLen characters.             *)

\* self.__class__.__name__[11:] drops the eleven characters of "Draft_Snap_".
PrefixLen == 11

\* The classes derived from Draft_Snap_Base that take a status, in the
\* order of the file.
SnapClasses ==
    <<
       <<"D", "r", "a", "f", "t", "_", "S", "n", "a", "p", "_", "L", "o", "c", "k">>,
       <<"D", "r", "a", "f", "t", "_", "S", "n", "a", "p", "_", "M", "i", "d", "p", "o", "i", "n", "t">>,
       <<"D", "r", "a", "f", "t", "_", "S", "n", "a", "p", "_", "P", "e", "r", "p", "e", "n", "d", "i", "c", "u", "l", "a", "r">>,
       <<"D", "r", "a", "f", "t", "_", "S", "n", "a", "p", "_", "G", "r", "i", "d">>,
       <<"D", "r", "a", "f", "t", "_", "S", "n", "a", "p", "_", "I", "n", "t", "e", "r", "s", "e", "c", "t", "i", "o", "n">>,
       <<"D", "r", "a", "f", "t", "_", "S", "n", "a", "p", "_", "P", "a", "r", "a", "l", "l", "e", "l">>,
       <<"D", "r", "a", "f", "t", "_", "S", "n", "a", "p", "_", "E", "n", "d", "p", "o", "i", "n", "t">>,
       <<"D", "r", "a", "f", "t", "_", "S", "n", "a", "p", "_", "A", "n", "g", "l", "e">>,
       <<"D", "r", "a", "f", "t", "_", "S", "n", "a", "p", "_", "C", "e", "n", "t", "e", "r">>,
       <<"D", "r", "a", "f", "t", "_", "S", "n", "a", "p", "_", "E", "x", "t", "e", "n", "s", "i", "o", "n">>,
       <<"D", "r", "a", "f", "t", "_", "S", "n", "a", "p", "_", "N", "e", "a", "r">>,
       <<"D", "r", "a", "f", "t", "_", "S", "n", "a", "p", "_", "O", "r", "t", "h", "o">>,
       <<"D", "r", "a", "f", "t", "_", "S", "n", "a", "p", "_", "S", "p", "e", "c", "i", "a", "l">>,
       <<"D", "r", "a", "f", "t", "_", "S", "n", "a", "p", "_", "D", "i", "m", "e", "n", "s", "i", "o", "n", "s">>,
       <<"D", "r", "a", "f", "t", "_", "S", "n", "a", "p", "_", "W", "o", "r", "k", "i", "n", "g", "P", "l", "a", "n", "e">>
    >>

Draft_Snap_Lock == SnapClasses[1]

\* The literal "Lock" of Draft_Snap_Lock.Activated and of IsActive.
Lock == <<"L", "o", "c", "k">>

\* name[11:]
SnapMode(cls) == SubSeq(cls, PrefixLen + 1, Len(cls))

Commands == {SnapClasses[i] : i \in 1..NumCommands}
Modes == {SnapMode(c) : c \in Commands}

\* The values of status the host passes: 0 (unchecked) and 1 (checked).
Statuses == {0, 1}

\* bool(status)
Bool(status) == status # 0

\* Gui.Snapper.toggle_snap(snap, set_to): the snap is made active or inactive.
toggle_snap(active, mode, set_to) ==
    IF set_to THEN active \cup {mode} ELSE active \ {mode}

\* Gui.Snapper.isEnabled(snap): the snap is among the active snaps.
isEnabled(active, mode) == mode \in active

\* What an activation has done so far: the active snaps, the toggle_snap
\* calls made (mode and value), the errors printed, whether the lock's
\* tracker is tracking, and the start_tracking and stop_tracking calls.
Outcome(active, toggles, errors, trk, starts, stops) ==
    [active |-> active, toggles |-> toggles, errors |-> errors,
     tracking |-> trk, starts |-> starts, stops |-> stops]

Toggled(o, mode, set_to) ==
    [o EXCEPT !.active = toggle_snap(@, mode, set_to),
              !.toggles = Append(@, <<mode, set_to>>)]

\* Lines 47-51: Draft_Snap_Base.Activated.
BaseActivated(cls, status, o) ==
    IF hasSnapper THEN Toggled(o, SnapMode(cls), Bool(status)) ELSE o

\* Lines 60-73: Draft_Snap_Base.toggleSnapMode.
toggleSnapMode(mode, status, o) ==
    IF ~hasSnapper THEN [o EXCEPT !.errors = @ + 1]
    ELSE IF ~hasSnapModes THEN [o EXCEPT !.errors = @ + 1]
    ELSE Toggled(o, mode, Bool(status))

\* SnapTracker.start_tracking() and stop_tracking(): is_active() is true
\* exactly between the two.
start_tracking(o) == [o EXCEPT !.tracking = TRUE, !.starts = @ + 1]
stop_tracking(o) == [o EXCEPT !.tracking = FALSE, !.stops = @ + 1]

\* Lines 92-99: Draft_Snap_Lock.Activated.
LockActivated(status, o) ==
    LET o1 == BaseActivated(Draft_Snap_Lock, status, o)
    IN  IF Bool(status)
        THEN start_tracking(toggleSnapMode(Lock, 1, o1))
        ELSE stop_tracking(toggleSnapMode(Lock, 0, o1))

\* The method Activated(status) resolves to on a command of class cls.
Activated(cls, status, o) ==
    IF cls = Draft_Snap_Lock THEN LockActivated(status, o)
    ELSE BaseActivated(cls, status, o)

\* Lines 53-54 and 101-102: IsActive() of a command of class cls.
IsActive(cls) ==
    IF cls = Draft_Snap_Lock THEN tracking
    ELSE hasSnapper /\ isEnabled(active_snaps, Lock)

Activation(kind, cls, status, o) ==
    [kind |-> kind, cls |-> cls, status |-> status, toggles |-> o.toggles,
     errors |-> o.errors, starts |-> o.starts, stops |-> o.stops]

NoActivation == Activation("init", Draft_Snap_Lock, 0, Outcome({}, <<>>, 0, FALSE, 0, 0))

---------------------------------------------------------------------------
(* The key events the model sends. *)

\* event.text() of a digit key pressed without a modifier.
\* The code of a digit key is the code point of its digit.
TextOf(k) == <<k>>

\* The digit keys the model presses: both ends of the range Key_0..Key_9.
DigitKeys == {Key_0, Key_9}

HandledKeys == {Key_Q, Key_Escape, Key_Backspace, Key_Delete, Key_Period,
                Key_Comma, Key_Return, Key_Enter} \cup (Key_0..Key_9)

OtherKeys == {Key_Slash, Key_Colon, Key_A}

\* A digit key carries its own digit or, with a modifier, another layout
\* or an input method, some other text: "!" and the empty text, which are
\* no digits, and the two characters "1" and U+0663 (ARABIC-INDIC DIGIT
\* THREE), which are.
\* The text of the other keys is not read.
Events ==
    {[key |-> k, text |-> TextOf(k)] : k \in DigitKeys}
    \cup {[key |-> Key_0, text |-> <<33>>], [key |-> Key_9, text |-> <<>>]}
    \cup {[key |-> Key_9, text |-> <<49, 1635>>]}
    \cup {[key |-> k, text |-> <<>>] : k \in (HandledKeys \ (Key_0..Key_9)) \cup OtherKeys}

LenOpt(o) == IF o = None THEN 0 ELSE Len(Get(o))

NoCalls == Result(NewTracker, <<>>, 0, 0, 0)

Event(kind, e, r) ==
    [kind |-> kind, key |-> e.key, text |-> e.text, calls |-> r.calls,
     accepts |-> r.accepts, defaults |-> r.defaults, errors |-> r.errors,
     raised |-> r.raised]

NoEvent == [key |-> Key_A, text |-> <<>>]

Init ==
    /\ hasTracker \in BOOLEAN
    /\ tracker = NewTracker
    /\ currentSnapPoint = None
    /\ wp \in WorkingPlanes
    /\ ev = Event("init", NoEvent, NoCalls)
    /\ hasSnapper = TRUE
    /\ hasSnapModes = TRUE
    /\ active_snaps = {}
    /\ tracking = FALSE
    /\ cmdEv = NoActivation

\* The host delivers a key event to the handler.
KeyPress ==
    \E e \in Events :
        LET r == keyPressEvent(hasTracker, tracker, currentSnapPoint, wp, e)
        IN  /\ LenOpt(r.tracker.inputDistance) <= MaxLen
            /\ tracker' = r.tracker
            /\ ev' = Event("key", e, r)
            /\ UNCHANGED <<hasTracker, currentSnapPoint, wp>>
            /\ UNCHANGED cmdVars

\* The snapper moves the current snap point with the mouse (or loses it).
MoveSnap ==
    \E p \in OptPoints :
        /\ p # currentSnapPoint
        /\ currentSnapPoint' = p
        /\ ev' = Event("move", NoEvent, NoCalls)
        /\ UNCHANGED <<hasTracker, tracker, wp>>
        /\ UNCHANGED cmdVars

Next == KeyPress \/ MoveSnap

Spec == Init /\ [][Next]_vars

---------------------------------------------------------------------------
(* The command specifications. *)

\* The commands as registered: the snapper may be missing, it may lack
\* snap_modes, any of its snaps may be active (they are restored from the
\* preferences), and the lock's tracker is not tracking.
CmdInit ==
    /\ hasSnapper \in BOOLEAN
    /\ hasSnapModes \in (IF hasSnapper THEN BOOLEAN ELSE {FALSE})
    /\ active_snaps \in (IF hasSnapper THEN SUBSET Modes ELSE {{}})
    /\ tracking = FALSE
    /\ cmdEv = NoActivation
    /\ hasTracker = TRUE
    /\ tracker = NewTracker
    /\ currentSnapPoint = None
    /\ wp = 1
    /\ ev = Event("init", NoEvent, NoCalls)

\* Activated(status) runs on the command of class cls.
Activate(cls, status) ==
    LET o == Activated(cls, status,
                       Outcome(active_snaps, <<>>, 0, tracking, 0, 0))
    IN  /\ active_snaps' = o.active
        /\ tracking' = o.tracking
        /\ cmdEv' = Activation("activated", cls, status, o)
        /\ UNCHANGED <<hasSnapper, hasSnapModes>>
        /\ UNCHANGED keyVars

\* Any command is activated, whatever IsActive() says (a script, a test).
CmdNext == \E cls \in Commands, status \in Statuses : Activate(cls, status)

CmdSpec == CmdInit /\ [][CmdNext]_vars

\* The host activates a command only when its IsActive() returns true.
HostNext ==
    \E cls \in Commands, status \in Statuses :
        IsActive(cls) /\ Activate(cls, status)

\* The user asks for the snap lock to be switched on.
HostLockOn == IsActive(Draft_Snap_Lock) /\ Activate(Draft_Snap_Lock, 1)

\* The host runs the command once it is enabled and stays enabled.
HostSpec == CmdInit /\ [][HostNext]_vars /\ WF_vars(HostLockOn)

---------------------------------------------------------------------------
(* The claims.  A claim about what one run of a handler does is stated on  *)
(* the step that runs it: the unprimed variables are the state before the  *)
(* handler, the primed ones the state after, and ev' (cmdEv') records what *)
(* the handler called.                                                     *)

\* The method m is among the tracker methods called.
Called(calls, m) == \E i \in 1..Len(calls) : calls[i][1] = m

\* processNumericInput was called with a digit.
DigitProcessed(calls) ==
    \E i \in 1..Len(calls) :
        calls[i][1] = "processNumericInput" /\ IsDigit(calls[i][2])

IsDigitKey(k) == Key_0 <= k /\ k <= Key_9

Count(s, ok(_)) == Cardinality({i \in 1..Len(s) : ok(s[i])})

IsSeparator(ch) == <<ch>> = Dot

\* A well-formed decimal: digits and at most one decimal point, at least
\* one digit.
WellFormedDecimal(s) ==
    /\ \A i \in 1..Len(s) : IsDigitChar(s[i]) \/ IsSeparator(s[i])
    /\ Count(s, IsDigitChar) >= 1
    /\ Count(s, IsSeparator) <= 1

\* An input that is a valid number: not None, not empty, not blank, and a
\* well-formed decimal.
ValidNumber(o) ==
    /\ o # None
    /\ Get(o) # <<>>
    /\ Strip(Get(o)) # <<>>
    /\ WellFormedDecimal(Get(o))

\* C1: with Gui.Snapper missing, Activated(status) on any snap command,
\* Draft_Snap_Lock included, calls toggle_snap not at all and neither starts
\* nor stops tracking.
C1_MissingSnapperIsNoOp ==
    (cmdEv.kind = "activated" /\ ~hasSnapper) =>
        /\ cmdEv.toggles = <<>>
        /\ cmdEv.starts = 0
        /\ cmdEv.stops = 0
        /\ active_snaps = {}
        /\ tracking = FALSE

\* C2: without a tracker every key event is accepted once, logs the error,
\* calls no tracker method, reaches no default handler and changes nothing.
C2_MissingTrackerIsNoOp ==
    [][(ev'.kind = "key" /\ ~hasTracker) =>
            /\ ev'.accepts = 1
            /\ ev'.errors = 1
            /\ ev'.defaults = 0
            /\ ev'.raised = FALSE
            /\ ev'.calls = <<>>
            /\ tracker' = tracker
            /\ currentSnapPoint' = currentSnapPoint
            /\ wp' = wp]_vars

C2_Witness ==
    /\ ~hasTracker
    /\ ev.kind = "key"
    /\ ev.key = Key_A
    /\ ev.accepts = 1
    /\ currentSnapPoint # None

\* C3: with Gui.Snapper and its snap_modes present, one Activated(status)
\* calls toggle_snap at most once, Draft_Snap_Lock included.
C3_ToggleAtMostOnce ==
    (cmdEv.kind = "activated" /\ hasSnapper /\ hasSnapModes) =>
        Len(cmdEv.toggles) <= 1

\* C4: commitInput is called only while handling Return or Enter, and only
\* when inputDistance is a valid number.
C4_CommitOnlyValidNumber ==
    [][(ev'.kind = "key" /\ Called(ev'.calls, "commitInput")) =>
            /\ ev'.key \in {Key_Return, Key_Enter}
            /\ ValidNumber(tracker.inputDistance)]_vars

\* C5: locked_dir_vector is assigned only by a digit key pressed while
\* inputDistance is None and the hold point and the snap point are set;
\* no other step changes it.
C5_DirectionOnlyForFirstDigit ==
    [][/\ (tracker'.locked_dir_vector # tracker.locked_dir_vector) =>
            (ev'.kind = "key" /\ Called(ev'.calls, "get_orthogonal_direction"))
       /\ (ev'.kind = "key" /\ Called(ev'.calls, "get_orthogonal_direction")) =>
            /\ IsDigitKey(ev'.key)
            /\ tracker.inputDistance = None
            /\ tracker.holdPoint # None
            /\ currentSnapPoint # None]_vars

C5_Witness ==
    /\ ev.kind = "key"
    /\ IsDigitKey(ev.key)
    /\ Called(ev.calls, "get_orthogonal_direction")
    /\ tracker.locked_dir_vector = Some(0 - 1)
    /\ tracker.inputDistance = Some(TextOf(Key_9))

\* C6: a digit key pressed while no hold point is set is accepted and does
\* nothing else; Escape unsets the hold point, and only a Q pressed while
\* there is a snap point sets it, so no digit is processed in between.
C6_DigitsIgnoredWithoutHoldPoint ==
    [][(ev'.kind = "key" /\ hasTracker) =>
            /\ (IsDigitKey(ev'.key) /\ tracker.holdPoint = None) =>
                    /\ ev'.accepts = 1
                    /\ ev'.defaults = 0
                    /\ ev'.calls = <<>>
                    /\ tracker' = tracker
            /\ DigitProcessed(ev'.calls) => tracker.holdPoint # None
            /\ ev'.key = Key_Escape => tracker'.holdPoint = None
            /\ (tracker.holdPoint = None /\ tracker'.holdPoint # None) =>
                    (ev'.key = Key_Q /\ currentSnapPoint # None)
            /\ (ev'.key = Key_Q /\ currentSnapPoint = None) =>
                    tracker'.holdPoint = tracker.holdPoint]_vars

\* A digit ignored after the hold point was used and cleared again.
C6_Witness ==
    /\ ev.kind = "key"
    /\ ev.key = Key_9
    /\ ev.text = TextOf(Key_9)
    /\ ev.calls = <<>>
    /\ tracker.holdPoint = None
    /\ tracker.locked_dir_vector # None

\* C7: with a tracker, a handled key is accepted once and never reaches the
\* default handler; any other key reaches the default handler once (the
\* handler returns, having called it) and leaves the tracker as it was.
C7_DispatchExclusive ==
    [][(ev'.kind = "key" /\ hasTracker) =>
            IF ev'.key \in HandledKeys
            THEN ev'.accepts = 1 /\ ev'.defaults = 0
            ELSE /\ ev'.defaults = 1
                 /\ ev'.raised = FALSE
                 /\ ev'.calls = <<>>
                 /\ tracker' = tracker]_vars

\* C8: Backspace and Delete remove exactly the last character of a
\* non-empty input and call updateTracking once; on None or the empty
\* string they do nothing; the hold point stays and the event is accepted.
C8_BackspaceRemovesLastChar ==
    [][(ev'.kind = "key" /\ hasTracker /\ ev'.key \in {Key_Backspace, Key_Delete}) =>
            /\ IF tracker.inputDistance # None /\ Get(tracker.inputDistance) # <<>>
               THEN /\ tracker'.inputDistance # None
                    /\ Len(Get(tracker'.inputDistance))
                         = Len(Get(tracker.inputDistance)) - 1
                    /\ \A i \in 1..Len(Get(tracker'.inputDistance)) :
                         Get(tracker'.inputDistance)[i] = Get(tracker.inputDistance)[i]
                    /\ ev'.calls = <<Call("updateTracking", <<>>)>>
               ELSE /\ tracker' = tracker
                    /\ ev'.calls = <<>>
            /\ tracker'.holdPoint = tracker.holdPoint
            /\ tracker'.locked_dir_vector = tracker.locked_dir_vector
            /\ ev'.accepts = 1
            /\ ev'.defaults = 0]_vars

C8_Witness ==
    /\ ev.kind = "key"
    /\ ev.key = Key_Delete
    /\ ev.calls = <<Call("updateTracking", <<>>)>>
    /\ tracker.inputDistance = Some(TextOf(Key_9) \o Dot)

\* C9: processNumericInput is never called, for a digit or for a decimal
\* separator, while the hold point is unset.
C9_NumericInputNeedsHoldPoint ==
    [][(ev'.kind = "key" /\ Called(ev'.calls, "processNumericInput")) =>
            tracker.holdPoint # None]_vars

\* Under HostSpec the lock's tracker never starts tracking: IsActive() of
\* Draft_Snap_Lock is false at first, and only its own Activated changes that.
HostLockNeverTracks == ~tracking

\* C10: with the host activating only commands whose IsActive() is true,
\* Draft_Snap_Lock.Activated(True) comes to run: the lock is toggled on and
\* tracking is started.
C10_LockCanBeSwitchedOn ==
    <>(/\ cmdEv.kind = "activated"
       /\ cmdEv.cls = Draft_Snap_Lock
       /\ cmdEv.status = 1
       /\ tracking)

===========================================================================
